---- MODULE Spec2Model ----
(***************************************************************************)
(* Model of Isotropic_emission.cpp: the Monte Carlo estimate of the        *)
(* geometric efficiency of a circular / annular detector.                  *)
(*                                                                         *)
(* Spec        the program main(): argument check, input, the sweep over   *)
(*             the distance points, every call of geom_eff_point, and the  *)
(*             output file.                                                *)
(* SpecAddVec  position::add_vec applied to arbitrary batches and offsets. *)
(*                                                                         *)
(* A double is a fixed-point integer (Scale units per 1.0), or one of three *)
(* reserved values for NaN, +Inf and -Inf, with the IEEE-754 rules for the *)
(* special values.  A draw of a <random> distribution is quantised to one  *)
(* of Buckets equal-probability cells and takes the value at the middle of *)
(* the cell; the engine is the minimal standard generator, so that a       *)
(* stream is a function of its seed and of nothing else.  The loops of the *)
(* generators and the counting loop take one step per turn.                *)
(* The sweeps explored run from z_min up to z_max >= z_min.                *)
(***************************************************************************)
EXTENDS Integers, Sequences, FiniteSets, TLC

(* -------------------------------- bounds ------------------------------- *)
MaxZ == 2               \* z_min, z_max range over 0 .. MaxZ detector radii
MaxPoints == 2          \* n_points ranges over -1 .. MaxPoints
MaxPower == 1           \* power ranges over -1 .. MaxPower, and OverflowPower
MaxSource == 1          \* source is 0 (a point) or MaxSource detector radii
MaxLen == 2             \* SpecAddVec: vectors of length 0 .. MaxLen

(* ------------------------------- doubles ------------------------------- *)
Scale == 100

INT_MAX == 2147483647
INT_MIN == (-2147483647) - 1

\* a finite double is its value in fixed point; three values beyond every
\* finite one stand for NaN, +Inf and -Inf
D(v) == v
NaN == INT_MIN
PInf == INT_MAX
NInf == -INT_MAX

Abs(a) == IF a < 0 THEN -a ELSE a
Sgn(a) == IF a < 0 THEN -1 ELSE IF a > 0 THEN 1 ELSE 0
TruncDiv(a, b) == Sgn(a) * Sgn(b) * (Abs(a) \div Abs(b))

IsNaN(a) == a = NaN
IsInf(a) == a = PInf \/ a = NInf
IsNum(a) == ~IsNaN(a) /\ ~IsInf(a)

DNeg(a) == IF IsNaN(a) THEN NaN ELSE -a

DAdd(a, b) ==
    IF IsNaN(a) \/ IsNaN(b) THEN NaN
    ELSE IF IsInf(a) /\ IsInf(b) THEN (IF a = b THEN a ELSE NaN)
    ELSE IF IsInf(a) THEN a
    ELSE IF IsInf(b) THEN b
    ELSE D(a + b)

DSub(a, b) == DAdd(a, DNeg(b))

DMul(a, b) ==
    IF IsNaN(a) \/ IsNaN(b) THEN NaN
    ELSE IF IsInf(a) \/ IsInf(b)
         THEN (IF Sgn(a) * Sgn(b) = 0 THEN NaN
               ELSE IF Sgn(a) * Sgn(b) > 0 THEN PInf ELSE NInf)
    ELSE D(TruncDiv(a * b, Scale))

\* x / 0 is +-Inf, 0 / 0 and Inf / Inf are NaN; nothing traps
DDivIEEE(a, b) ==
    IF IsNaN(a) \/ IsNaN(b) THEN NaN
    ELSE IF IsInf(a) /\ IsInf(b) THEN NaN
    ELSE IF IsInf(a) THEN (IF b < 0 THEN DNeg(a) ELSE a)
    ELSE IF IsInf(b) THEN D(0)
    ELSE IF b = 0
         THEN (IF a = 0 THEN NaN ELSE IF a > 0 THEN PInf ELSE NInf)
    ELSE D(TruncDiv(a * Scale, b))

\* faulty variant: a division that yields NaN for every zero divisor
DDivZeroIsNaN(a, b) ==
    IF IsNum(a) /\ IsNum(b) /\ b = 0 THEN NaN ELSE DDivIEEE(a, b)

DDiv(a, b) == DDivIEEE(a, b)

RECURSIVE ISqrtIn(_, _, _)
ISqrtIn(n, lo, hi) ==
    IF lo >= hi THEN lo
    ELSE LET mid == (lo + hi + 1) \div 2
         IN IF mid * mid <= n THEN ISqrtIn(n, mid, hi) ELSE ISqrtIn(n, lo, mid - 1)

ISqrt(n) == ISqrtIn(n, 0, 46340)

DSqrt(a) ==
    IF IsNaN(a) THEN NaN
    ELSE IF IsInf(a) THEN (IF a > 0 THEN PInf ELSE NaN)
    ELSE IF a < 0 THEN NaN
    ELSE D(ISqrt(a * Scale))

\* a <= b on doubles: false whenever an operand is NaN
DLe(a, b) == IF IsNaN(a) \/ IsNaN(b) THEN FALSE ELSE a <= b

IntToD(n) == D(n * Scale)

(* ------------------------------ machine int ---------------------------- *)
RECURSIVE Pow10(_)
Pow10(p) == IF p <= 0 THEN 1 ELSE 10 * Pow10(p - 1)

\* the least power for which 10^power does not fit an int
OverflowPower == 10

\* int n_perpoint = pow(10, power): the outcomes of the double -> int
\* conversion.  Below 1.0 it truncates to 0; out of range it is undefined,
\* and a build yields the "indefinite" INT_MIN or the saturated INT_MAX.
PowToInt(p) ==
    IF p < 0 THEN {0}
    ELSE IF p < OverflowPower THEN {Pow10(p)}
    ELSE {INT_MIN, INT_MAX}

\* 2 * n_perpoint in int arithmetic: out of range is undefined (wraps)
IntTwice(n) ==
    IF n > INT_MAX \div 2 THEN ((n - INT_MAX) - 1) + n ELSE n + n

(* --------------------------- random engine ----------------------------- *)
\* std::default_random_engine: the minimal standard generator
\* x' = 16807 x mod (2^31 - 1), computed without overflow (Schrage).
LcgA == 16807
LcgM == 2147483647
LcgQ == LcgM \div LcgA
LcgR == LcgM % LcgA
Buckets == 4

SeedEngine(s) == IF s % LcgM = 0 THEN 1 ELSE s % LcgM

EngineNext(g) ==
    LET t == LcgA * (g % LcgQ) - LcgR * (g \div LcgQ)
    IN IF t < 0 THEN t + LcgM ELSE t

\* generate_canonical<double, 53>: two engine outputs, the second the more
\* significant; the cell of the result in [0, 1)
Canonical(g) ==
    LET g1 == EngineNext(g)
        g2 == EngineNext(g1)
        cell == (g2 - 1) \div ((LcgM \div Buckets) + 1)
    IN [u |-> cell + 1, gen |-> g2]

\* values at the middle of each cell, in fixed point
CosPhi == <<70, -70, -70, 70>>            \* cos of 45, 135, 225, 315 degrees
SinPhi == <<70, 70, -70, -70>>
TanTheta == <<88, 387, -387, -88>>        \* tan(acos(1 - 2u)), u = 1/8, 3/8, 5/8, 7/8
SqrtU == <<35, 61, 79, 93>>               \* sqrt(u)
NormalQ == <<-115, -32, 32, 115>>         \* standard normal quantiles (one draw per value)

(* ------------------------------ position ------------------------------- *)
\* faulty variant: one element too many
NewVectorOffByOne(n) == [e \in 1..(n + 1) |-> D(0)]

\* std::vector<double> v(n): n value-initialised elements
NewVector(n) == [e \in 1..n |-> D(0)]

\* position(x_in, y_in)
Position(x_in, y_in) == [x |-> x_in, y |-> y_in]

\* faulty variant: a static engine, seeded once and never again
StaticEngine(left, s) == left

\* std::default_random_engine generator{seed}: a fresh engine on every call of
\* a generator; `left` is what the previous engine left in that storage
NewEngine(left, s) == SeedEngine(s)

\* the point a generator makes from its two draws (cells phi, u)
IsotropicPoint(z, phi, u) ==
    LET zt == DMul(z, D(TanTheta[u]))
    IN <<DMul(zt, D(CosPhi[phi])), DMul(zt, D(SinPhi[phi]))>>

CircularPoint(r_s, phi, u) ==
    LET r == DMul(r_s, D(SqrtU[u]))
    IN <<DMul(r, D(CosPhi[phi])), DMul(r, D(SinPhi[phi]))>>

GaussianPoint(sigma, phi, u) ==
    LET r == DAdd(DMul(D(NormalQ[u]), sigma), D(0))
    IN <<DMul(r, D(CosPhi[phi])), DMul(r, D(SinPhi[phi]))>>

PointOf(kind, par, phi, u) ==
    IF kind = "isotropic" THEN IsotropicPoint(par, phi, u)
    ELSE IF kind = "circular" THEN CircularPoint(par, phi, u)
    ELSE GaussianPoint(par, phi, u)

\* one turn of a generator's loop: phi = phi_distr(generator), the second draw,
\* x[i] = ..., y[i] = ...  (i counts from 1 here)
FillStep(pos, g, i, kind, par) ==
    LET c1 == Canonical(g)
        c2 == Canonical(c1.gen)
        pt == PointOf(kind, par, c1.u, c2.u)
    IN [pos |-> [x |-> [pos.x EXCEPT ![i] = pt[1]],
                 y |-> IF i <= Len(pos.y) THEN [pos.y EXCEPT ![i] = pt[2]] ELSE pos.y],
        gen |-> c2.gen]

generate_isotropic(pos, z, g, i) == FillStep(pos, g, i, "isotropic", z)
generate_circular_distr(pos, r_s, g, i) == FillStep(pos, g, i, "circular", r_s)
generate_gaussian_distr(pos, sigma, g, i) == FillStep(pos, g, i, "gaussian", sigma)

Min2(a, b) == IF a < b THEN a ELSE b

\* position::add_vec.  Only x.size() and x_diff.size() are compared.  When y or
\* y_diff is shorter the loop runs into it: x[i] has been added to already when
\* y[i] or y_diff[i] is read out of bounds (st = "OutOfBounds").
add_vec(pos, x_diff, y_diff) ==
    LET size_1 == Len(pos.x)
        size_2 == Len(x_diff)
        ylim == Min2(Len(pos.y), Len(y_diff))
        last == Min2(size_1, ylim + 1)
    IN IF size_1 # size_2
       THEN [st |-> "SizeMismatch", x |-> pos.x, y |-> pos.y]
       ELSE [st |-> IF ylim < size_1 THEN "OutOfBounds" ELSE "ok",
             x |-> [e \in 1..Len(pos.x) |->
                      IF e <= last THEN DAdd(pos.x[e], x_diff[e]) ELSE pos.x[e]],
             y |-> [e \in 1..Len(pos.y) |->
                      IF e <= Min2(size_1, ylim) THEN DAdd(pos.y[e], y_diff[e])
                      ELSE pos.y[e]]]

\* position::calculate_rsq
calculate_rsq(pos) ==
    [e \in 1..Len(pos.x) |->
        IF e <= Len(pos.y)
        THEN DAdd(DMul(pos.x[e], pos.x[e]), DMul(pos.y[e], pos.y[e]))
        ELSE NaN]

\* linspace(min, max, nr_points), nr_points >= 0
linspace(min, max, nr_points) ==
    LET delta == DDiv(DSub(max, min), DMul(D(Scale), IntToD(nr_points - 1)))
    IN [e \in 1..nr_points |-> DAdd(min, DMul(delta, IntToD(e - 1)))]

\* point_source(z)
point_source(zs) ==
    [e \in 1..Len(zs) |->
        DSub(IntToD(50),
             DDiv(DMul(IntToD(50), zs[e]),
                  DSqrt(DAdd(IntToD(1), DMul(zs[e], zs[e])))))]

\* 100 / sqrt(2 * n_perpoint * efficiency / 100)
RelErr(n, eff) ==
    DDiv(IntToD(100),
         DSqrt(DDiv(DMul(IntToD(IntTwice(n)), eff), IntToD(100))))

\* 50.0 * N_hit / n
Efficiency(hits, n) == DDiv(DMul(D(50 * Scale), IntToD(hits)), IntToD(n))

(* ------------------------------- state --------------------------------- *)
VARIABLES
    argc, source_type, detector_type,          \* the command line
    z_min, z_max, n_points, source, power, det_fraction,   \* std::cin
    seed, n_perpoint, z, efficiencies, rel_ers,
    efficiencies_outer, efficiencies_inner, i, \* locals of main
    pc, status, file,                          \* position in main, how it ended, the output file
    frame,                                     \* geom_eff_point: its parameters z, source, n, seed
    N_hit, j, generate_source, generate_emission, r_final,  \* geom_eff_point: its locals
    generator,                                 \* storage of the generators' engine
    calls,                                     \* history: the calls of geom_eff_point that returned
    av_pos, av_dx, av_dy, av_before, av_status \* SpecAddVec: a batch, two offsets, the outcome

args == <<argc, source_type, detector_type>>
inputs == <<z_min, z_max, n_points, source, power, det_fraction>>
sweep == <<seed, n_perpoint, z, efficiencies, rel_ers, efficiencies_outer, efficiencies_inner, i>>
locals == <<frame, N_hit, j, generate_source, generate_emission, r_final, generator>>
addvec == <<av_pos, av_dx, av_dy, av_before, av_status>>
vars == <<args, inputs, sweep, pc, status, file, locals, calls, addvec>>

InitialSeed == 15763027

NoFrame == [z |-> NaN, source |-> NaN, n |-> 0, seed |-> 0, handed |-> 0, which |-> "none"]
NoBatch == Position(<<>>, <<>>)

SourceTypes == {"uniform", "gaussian", "square"}
DetectorTypes == {"circular", "annular", "ring"}
ZValues == {D(k * Scale) : k \in 0..MaxZ}
SourceValues == {D(0), D(MaxSource * Scale)}
PointCounts == (-1)..MaxPoints
Powers == ((-1)..MaxPower) \cup {OverflowPower}
Fractions == {D(Scale \div 2), D(Scale), D(2 * Scale)}

InitSweep ==
    /\ argc \in {2, 3}
    /\ source_type \in SourceTypes
    /\ detector_type \in (IF argc = 3 THEN DetectorTypes ELSE {""})
    /\ z_min = D(0) /\ z_max = D(0) /\ n_points = 0 /\ source = D(0)
    /\ power = 0 /\ det_fraction = D(0)
    /\ seed = InitialSeed
    /\ n_perpoint = 0
    /\ z = <<>> /\ efficiencies = <<>> /\ rel_ers = <<>>
    /\ efficiencies_outer = <<>> /\ efficiencies_inner = <<>>
    /\ i = 0
    /\ pc = "start" /\ status = "running" /\ file = <<>>
    /\ frame = NoFrame
    /\ N_hit = 0 /\ j = 0
    /\ generate_source = NoBatch /\ generate_emission = NoBatch
    /\ r_final = <<>>
    /\ generator = 1
    /\ calls = <<>>

NoAddVec ==
    /\ av_pos = NoBatch /\ av_dx = <<>> /\ av_dy = <<>>
    /\ av_before = NoBatch /\ av_status = "idle"

Init == InitSweep /\ NoAddVec

(* ------------------------------- main ---------------------------------- *)
\* lines 176-191: the command line
CheckArgs ==
    /\ pc = "start"
    /\ IF argc # 3
          \/ (source_type # "uniform" /\ source_type # "gaussian")
          \/ (detector_type # "circular" /\ detector_type # "annular")
       THEN pc' = "exit" /\ status' = "exit(0)"
       ELSE pc' = "input" /\ status' = status
    /\ UNCHANGED <<args, inputs, sweep, file, locals, calls, addvec>>

\* lines 194-209: the values read from std::cin
ReadInput ==
    /\ pc = "input"
    /\ z_min' \in ZValues
    /\ z_max' \in {v \in ZValues : v >= z_min'}
    /\ n_points' \in PointCounts
    /\ source' \in SourceValues
    /\ power' \in Powers
    /\ det_fraction' \in (IF detector_type = "annular" THEN Fractions ELSE {det_fraction})
    /\ pc' = "setup"
    /\ UNCHANGED <<args, sweep, status, file, locals, calls, addvec>>

\* lines 211-214: n_perpoint, the distances and the result vectors.  A vector
\* of a negative size throws std::length_error, which nothing catches.
Setup ==
    /\ pc = "setup"
    /\ n_perpoint' \in PowToInt(power)
    /\ IF n_points < 0
       THEN /\ pc' = "exit" /\ status' = "terminate"
            /\ UNCHANGED <<z, efficiencies, rel_ers, efficiencies_outer, efficiencies_inner>>
       ELSE /\ pc' = "loop" /\ status' = status
            /\ z' = linspace(z_min, z_max, n_points)
            /\ efficiencies' = NewVector(n_points)
            /\ rel_ers' = NewVector(n_points)
            /\ efficiencies_outer' = NewVector(n_points)
            /\ efficiencies_inner' = NewVector(n_points)
    /\ i' = 0
    /\ UNCHANGED <<args, inputs, seed, file, locals, calls, addvec>>

(* --------------------------- geom_eff_point ---------------------------- *)
\* the largest vector the machine's memory holds; beyond it std::bad_alloc
MemoryLimit == Pow10(MaxPower)

\* faulty variant: int& seed, the increment reaches main
SeedByReference(mains, callees) == callees

\* int seed is passed by value: seed++ in geom_eff_point changes its own copy
SeedAfterCall(mains, callees) == mains

\* lines 122-127: the call, N_hit = 0 and the four vectors of n elements
Enter(zv, sv, which) ==
    /\ frame' = [z |-> zv, source |-> sv, n |-> n_perpoint, seed |-> seed,
                 handed |-> seed, which |-> which]
    /\ N_hit' = 0
    /\ j' = 0
    /\ r_final' = <<>>
    /\ IF n_perpoint < 0 \/ n_perpoint > MemoryLimit
       THEN /\ pc' = "exit" /\ status' = "terminate"
            /\ UNCHANGED <<generate_source, generate_emission>>
       ELSE /\ pc' = "gen_source" /\ status' = status
            /\ generate_source' = Position(NewVector(n_perpoint), NewVector(n_perpoint))
            /\ generate_emission' = Position(NewVector(n_perpoint), NewVector(n_perpoint))
    /\ UNCHANGED <<args, inputs, sweep, file, generator, calls, addvec>>

\* line 219
CallCircular ==
    /\ pc = "loop" /\ i < n_points /\ detector_type = "circular"
    /\ Enter(z[i + 1], source, "circular")

\* line 223
CallOuter ==
    /\ pc = "loop" /\ i < n_points /\ detector_type = "annular"
    /\ Enter(z[i + 1], source, "outer")

\* faulty variant: divides by the fraction
DivideByFraction(v, f) == DDiv(v, f)

\* z[i] * det_fraction, source * det_fraction
ScaleByFraction(v, f) == DMul(v, f)

\* line 224
CallInner ==
    /\ pc = "inner"
    /\ Enter(ScaleByFraction(z[i + 1], det_fraction),
             ScaleByFraction(source, det_fraction), "inner")

\* lines 129-136 and 64, 79: the branch on source_type and the generator's engine
GenSource ==
    /\ pc = "gen_source"
    /\ IF source_type = "uniform" \/ source_type = "gaussian"
       THEN /\ generator' = NewEngine(generator, frame.seed)
            /\ pc' = "fill_source" /\ status' = status
       ELSE /\ pc' = "exit" /\ status' = "exit(0)"
            /\ UNCHANGED generator
    /\ j' = 0
    /\ UNCHANGED <<args, inputs, sweep, file, frame, N_hit, generate_source,
                   generate_emission, r_final, calls, addvec>>

\* lines 69-74, 84-89: one turn of the source generator's loop
FillSource ==
    /\ pc = "fill_source" /\ j < Len(generate_source.x)
    /\ LET g == IF source_type = "uniform"
                THEN generate_circular_distr(generate_source, frame.source, generator, j + 1)
                ELSE generate_gaussian_distr(generate_source, frame.source, generator, j + 1)
       IN generate_source' = g.pos /\ generator' = g.gen
    /\ j' = j + 1
    /\ UNCHANGED <<args, inputs, sweep, pc, status, file, frame, N_hit,
                   generate_emission, r_final, calls, addvec>>

\* lines 138-139 and 49: seed++ and the engine of generate_isotropic
GenEmission ==
    /\ pc = "fill_source" /\ j >= Len(generate_source.x)
    /\ frame' = [frame EXCEPT !.seed = frame.seed + 1]
    /\ generator' = NewEngine(generator, frame.seed + 1)
    /\ j' = 0
    /\ pc' = "fill_emission"
    /\ UNCHANGED <<args, inputs, sweep, status, file, N_hit, generate_source,
                   generate_emission, r_final, calls, addvec>>

\* lines 54-59: one turn of the loop of generate_isotropic
FillEmission ==
    /\ pc = "fill_emission" /\ j < Len(generate_emission.x)
    /\ LET g == generate_isotropic(generate_emission, frame.z, generator, j + 1)
       IN generate_emission' = g.pos /\ generator' = g.gen
    /\ j' = j + 1
    /\ UNCHANGED <<args, inputs, sweep, pc, status, file, frame, N_hit,
                   generate_source, r_final, calls, addvec>>

\* lines 140-141: add_vec and calculate_rsq
AddVec ==
    /\ pc = "fill_emission" /\ j >= Len(generate_emission.x)
    /\ LET r == add_vec(generate_source, generate_emission.x, generate_emission.y)
       IN /\ generate_source' = Position(r.x, r.y)
          /\ IF r.st = "ok"
             THEN /\ pc' = "hits" /\ status' = status
                  /\ r_final' = calculate_rsq(Position(r.x, r.y))
             ELSE /\ pc' = "exit"
                  /\ status' = (IF r.st = "SizeMismatch" THEN "exit(0)" ELSE "undefined")
                  /\ UNCHANGED r_final
    /\ j' = 0
    /\ UNCHANGED <<args, inputs, sweep, file, frame, N_hit, generate_emission,
                   generator, calls, addvec>>

\* r_final[i] <= 1
IsHit(rsq) == DLe(rsq, IntToD(1))

\* faulty variant: every hit counts twice
HitIncrementTwice(hit) == IF hit THEN 2 ELSE 0

\* if (r_final[i] <= 1) N_hit++
HitIncrement(hit) == IF hit THEN 1 ELSE 0

\* lines 144-148: one turn of the counting loop
HitStep ==
    /\ pc = "hits" /\ j < frame.n
    /\ N_hit' = N_hit + HitIncrement(j + 1 <= Len(r_final) /\ IsHit(r_final[j + 1]))
    /\ j' = j + 1
    /\ UNCHANGED <<args, inputs, sweep, pc, status, file, frame, generate_source,
                   generate_emission, r_final, generator, calls, addvec>>

\* line 149: the value returned, and the record of the call
Returned(which) ==
    /\ pc = "hits" /\ j >= frame.n /\ frame.which = which
    /\ calls' = Append(calls, [point |-> i, which |-> which, z |-> frame.z,
                               source |-> frame.source, n |-> frame.n,
                               seed |-> frame.handed, emission_seed |-> frame.seed,
                               hits |-> N_hit, ret |-> Efficiency(N_hit, frame.n)])
    /\ seed' = SeedAfterCall(seed, frame.seed)
    /\ frame' = NoFrame /\ N_hit' = 0 /\ j' = 0
    /\ generate_source' = NoBatch /\ generate_emission' = NoBatch /\ r_final' = <<>>
    /\ UNCHANGED <<args, inputs, n_perpoint, z, status, file, generator, addvec>>

\* lines 219-220, 235
ReturnCircular ==
    /\ Returned("circular")
    /\ LET e == Efficiency(N_hit, frame.n)
       IN /\ efficiencies' = [efficiencies EXCEPT ![i + 1] = e]
          /\ rel_ers' = [rel_ers EXCEPT ![i + 1] = RelErr(n_perpoint, e)]
    /\ i' = i + 1
    /\ pc' = "loop"
    /\ UNCHANGED <<efficiencies_outer, efficiencies_inner>>

\* line 223
ReturnOuter ==
    /\ Returned("outer")
    /\ efficiencies_outer' = [efficiencies_outer EXCEPT ![i + 1] = Efficiency(N_hit, frame.n)]
    /\ pc' = "inner"
    /\ UNCHANGED <<efficiencies, rel_ers, efficiencies_inner, i>>

\* lines 224-228, 235
ReturnInner ==
    /\ Returned("inner")
    /\ LET inner == Efficiency(N_hit, frame.n)
           outer == efficiencies_outer[i + 1]
           rel_ers_outer == RelErr(n_perpoint, outer)
           rel_ers_inner == RelErr(n_perpoint, inner)
       IN /\ efficiencies_inner' = [efficiencies_inner EXCEPT ![i + 1] = inner]
          /\ efficiencies' = [efficiencies EXCEPT ![i + 1] = DSub(outer, inner)]
          /\ rel_ers' = [rel_ers EXCEPT ![i + 1] =
                           DSqrt(DAdd(DMul(rel_ers_outer, rel_ers_outer),
                                      DMul(rel_ers_inner, rel_ers_inner)))]
    /\ i' = i + 1
    /\ pc' = "loop"
    /\ UNCHANGED efficiencies_outer

\* lines 154-165, 239-240: the output file, one row per distance
WriteFile ==
    /\ pc = "loop" /\ i >= n_points
    /\ LET e_ps == point_source(z)
       IN file' = <<[header |-> TRUE]>> \o
                  [e \in 1..Len(z) |-> [header |-> FALSE, z |-> z[e], ps |-> e_ps[e],
                                        eff |-> efficiencies[e], rel |-> rel_ers[e]]]
    /\ pc' = "done"
    /\ status' = "returned"
    /\ UNCHANGED <<args, inputs, sweep, locals, calls, addvec>>

Next ==
    \/ CheckArgs \/ ReadInput \/ Setup
    \/ CallCircular \/ CallOuter \/ CallInner
    \/ GenSource \/ FillSource \/ GenEmission \/ FillEmission \/ AddVec \/ HitStep
    \/ ReturnCircular \/ ReturnOuter \/ ReturnInner
    \/ WriteFile

Spec == Init /\ [][Next]_vars

(* ------------------------ add_vec on its own --------------------------- *)
Elements == {D(Scale), D(2 * Scale)}
Vectors == UNION {[1..n -> Elements] : n \in 0..MaxLen}

IdleSweep ==
    /\ argc = 3 /\ source_type = "uniform" /\ detector_type = "circular"
    /\ z_min = D(0) /\ z_max = D(0) /\ n_points = 0 /\ source = D(0)
    /\ power = 0 /\ det_fraction = D(0)
    /\ seed = InitialSeed
    /\ n_perpoint = 0
    /\ z = <<>> /\ efficiencies = <<>> /\ rel_ers = <<>>
    /\ efficiencies_outer = <<>> /\ efficiencies_inner = <<>>
    /\ i = 0
    /\ pc = "idle" /\ status = "running" /\ file = <<>>
    /\ frame = NoFrame
    /\ N_hit = 0 /\ j = 0
    /\ generate_source = NoBatch /\ generate_emission = NoBatch
    /\ r_final = <<>>
    /\ generator = 1
    /\ calls = <<>>

InitAddVec ==
    /\ IdleSweep
    /\ \E bx \in Vectors, by \in Vectors : av_pos = Position(bx, by)
    /\ av_dx \in Vectors
    /\ av_dy \in Vectors
    /\ av_before = av_pos
    /\ av_status = "ready"

\* lines 22-35: batch.add_vec(dx, dy).  Reading or writing past the end of a
\* vector is undefined: the process dies there or runs on over foreign memory.
ApplyAddVec ==
    /\ av_status = "ready"
    /\ LET r == add_vec(av_pos, av_dx, av_dy)
       IN /\ av_pos' = Position(r.x, r.y)
          /\ av_status' \in (IF r.st = "OutOfBounds" THEN {"segfault", "overrun"} ELSE {r.st})
    /\ UNCHANGED <<args, inputs, sweep, pc, status, file, locals, calls,
                   av_dx, av_dy, av_before>>

NextAddVec == ApplyAddVec

SpecAddVec == InitAddVec /\ [][NextAddVec]_vars

(* ------------------------------ properties ----------------------------- *)
Calls == 1..Len(calls)
InCall == frame.which # "none"
\* std::cin has been read (an exit(0) outside geom_eff_point is the command line's)
PastInput ==
    /\ pc \notin {"start", "input", "idle"}
    /\ ~(pc = "exit" /\ status = "exit(0)" /\ ~InCall)
PastSetup == PastInput /\ pc # "setup"
Fifty == IntToD(50)
\* no efficiency has been computed and no result row written
NoResults == calls = <<>> /\ \A e \in 1..Len(file) : file[e].header

\* C1 (as stated): for consecutive distance points the seed handed to
\* geom_eff_point for point i+1 is greater than the one handed to it for point i.
C1_SeedAdvancesPerPoint ==
    \A a \in Calls, b \in Calls :
        calls[b].point = calls[a].point + 1 => calls[b].seed > calls[a].seed

\* C1 (amended): main's seed is never advanced; every call, at every distance
\* point and for both annular boundaries, is handed the initial seed, draws its
\* source positions from it and its emission offsets from the initial seed + 1.
C1_SameSeedEveryCall ==
    /\ seed = InitialSeed
    /\ InCall => frame.handed = InitialSeed
    /\ \A c \in Calls :
          calls[c].seed = InitialSeed /\ calls[c].emission_seed = InitialSeed + 1

C1_Witness ==
    \E a \in Calls, b \in Calls :
        calls[b].point = calls[a].point + 1 /\ calls[a].n >= 1

\* the annular points finished so far
AnnularDone == IF detector_type = "annular" /\ PastSetup THEN 1..i ELSE {}
OuterCall(e) == CHOOSE c \in Calls : calls[c].point = e - 1 /\ calls[c].which = "outer"
InnerCall(e) == CHOOSE c \in Calls : calls[c].point = e - 1 /\ calls[c].which = "inner"

\* C2 (as stated): with inner/outer ratio r in (0, 1] the combined efficiency
\* efficiency_outer - efficiency_inner is non-negative at every distance.
C2_AnnularNonNegative ==
    \A e \in AnnularDone :
        (n_perpoint >= 1 /\ det_fraction > 0 /\ det_fraction <= D(Scale))
            => DLe(D(0), efficiencies[e])

\* C2 (amended): the inner evaluation sees the outer one's points scaled by
\* det_fraction.  For a fraction in (0, 1] it counts at least as many hits as
\* the outer one and the combined efficiency is non-positive; for a fraction
\* >= 1 it counts at most as many and the combined efficiency is non-negative.
C2_AnnularSignFollowsFraction ==
    \A e \in AnnularDone :
        n_perpoint >= 1 =>
            /\ efficiencies[e] = DSub(efficiencies_outer[e], efficiencies_inner[e])
            /\ calls[InnerCall(e)].seed = calls[OuterCall(e)].seed
            /\ det_fraction <= D(Scale) =>
                  /\ calls[InnerCall(e)].hits >= calls[OuterCall(e)].hits
                  /\ DLe(efficiencies[e], D(0))
            /\ det_fraction >= D(Scale) =>
                  /\ calls[InnerCall(e)].hits <= calls[OuterCall(e)].hits
                  /\ DLe(D(0), efficiencies[e])

C2_Witness ==
    \E e \in AnnularDone :
        /\ n_perpoint >= 1
        /\ det_fraction < D(Scale)
        /\ calls[InnerCall(e)].hits > calls[OuterCall(e)].hits

\* C3 (as stated): with n_points < 2 the sweep fails before any distance is
\* evaluated: no call of geom_eff_point, no result computed or written.
C3_FewPointsRejected ==
    (PastSetup /\ n_points < 2) =>
        /\ ~InCall
        /\ NoResults

\* C4 (as stated): with n_samples <= 0 the sweep is rejected at once:
\* geom_eff_point never runs with n <= 0 and no results are produced.
C4_NonPositiveSamplesRejected ==
    (PastSetup /\ n_perpoint <= 0) =>
        /\ ~InCall
        /\ NoResults

\* the relative error the sweep reports for the point of call c, once stored
Reported(c) == calls[c].point < i
ZeroHit(c) == calls[c].n >= 1 /\ calls[c].hits = 0

\* C5: an evaluation of N >= 1 samples with zero hits returns efficiency 0,
\* the relative error reported for its point is +Inf (not NaN), the sweep does
\* not abort after it and the file holds a row for every distance point.
C5_ZeroHitsInfiniteError ==
    /\ \A c \in Calls :
          ZeroHit(c) =>
              /\ calls[c].ret = D(0)
              /\ Reported(c) => rel_ers[calls[c].point + 1] = PInf
              /\ status \in {"running", "returned"}
    /\ pc = "done" =>
          /\ Len(file) = n_points + 1
          /\ \A e \in 1..n_points :
                file[e + 1].eff = efficiencies[e] /\ file[e + 1].rel = rel_ers[e]

C5_Witness ==
    /\ pc = "done"
    /\ n_points >= 2
    /\ \E c \in Calls : ZeroHit(c) /\ calls[c].point = 0 /\ file[2].rel = PInf

\* C6 (as stated): add_vec either adds dx[i] to x[i] and dy[i] to y[i] at every
\* index, when x, y, dx and dy have one length, or fails with SizeMismatch
\* having modified no element, whenever any of the lengths differ.
C6_AddVecAddsOrRefuses ==
    av_status \notin {"idle", "ready"} =>
        IF /\ Len(av_before.x) = Len(av_before.y)
           /\ Len(av_before.x) = Len(av_dx)
           /\ Len(av_before.x) = Len(av_dy)
        THEN /\ av_status = "ok"
             /\ \A e \in 1..Len(av_dx) :
                   /\ av_pos.x[e] = DAdd(av_before.x[e], av_dx[e])
                   /\ av_pos.y[e] = DAdd(av_before.y[e], av_dy[e])
        ELSE /\ av_status = "SizeMismatch"
             /\ av_pos = av_before

SameArguments(a, b) ==
    /\ calls[a].z = calls[b].z
    /\ calls[a].source = calls[b].source
    /\ calls[a].n = calls[b].n
    /\ calls[a].seed = calls[b].seed

\* C7: two calls of geom_eff_point with identical arguments return identical
\* values, whatever ran between them; between calls nothing of a call is left.
C7_Deterministic ==
    /\ \A a \in Calls, b \in Calls :
          SameArguments(a, b) =>
              calls[a].hits = calls[b].hits /\ calls[a].ret = calls[b].ret
    /\ ~InCall =>
          /\ N_hit = 0 /\ r_final = <<>>
          /\ generate_source = NoBatch /\ generate_emission = NoBatch

C7_Witness ==
    \E a \in Calls, b \in Calls :
        /\ b > a + 1
        /\ SameArguments(a, b)
        /\ ~SameArguments(a, a + 1)
        /\ calls[a].hits > 0 /\ calls[a].hits < calls[a].n

RECURSIVE IsPow10(_, _)
IsPow10(n, p) == IF p = 0 THEN n = 1 ELSE n > 0 /\ n % 10 = 0 /\ IsPow10(n \div 10, p - 1)

\* C8 (as stated): for every power >= 0 the sweep accepts, the sample count
\* n_perpoint is exactly 10^power.
C8_SampleCountIsPowerOfTen ==
    (PastSetup /\ power >= 0) => IsPow10(n_perpoint, power)

\* C9: in every evaluation both batches hold exactly N x-values and N y-values
\* from construction on, add_vec never takes its SizeMismatch branch (nor runs
\* out of bounds), and the hit loop reads exactly N squared radii.
C9_BatchesHoldN ==
    /\ pc \in {"fill_source", "fill_emission", "hits"} =>
          /\ Len(generate_source.x) = frame.n /\ Len(generate_source.y) = frame.n
          /\ Len(generate_emission.x) = frame.n /\ Len(generate_emission.y) = frame.n
    /\ pc = "hits" => Len(r_final) = frame.n /\ j <= Len(r_final)
    /\ (pc = "exit" /\ InCall) => status = "terminate"
    /\ status # "undefined"

C9_Witness ==
    pc = "hits" /\ frame.n > 1 /\ j = frame.n /\ N_hit > 0

\* C10: with N >= 1 the hit counter is the number of points read so far whose
\* squared radius is <= 1, so 0 <= N_hit <= j <= N at every step; the returned
\* efficiency lies in [0, 50], is 50 exactly when every point hits, and is 50
\* for a point source at z = 0.
C10_HitCounterBounded ==
    /\ (pc = "hits" /\ frame.n >= 1) =>
          /\ 0 <= N_hit /\ N_hit <= j /\ j <= frame.n
          /\ N_hit = Cardinality({e \in 1..j : IsHit(r_final[e])})
    /\ \A c \in Calls :
          calls[c].n >= 1 =>
              /\ 0 <= calls[c].hits /\ calls[c].hits <= calls[c].n
              /\ DLe(D(0), calls[c].ret) /\ DLe(calls[c].ret, Fifty)
              /\ (calls[c].ret = Fifty) <=> (calls[c].hits = calls[c].n)
              /\ (calls[c].z = D(0) /\ calls[c].source = D(0)) => calls[c].ret = Fifty

C10_Witness ==
    /\ \E c \in Calls :
          calls[c].n > 1 /\ calls[c].z = D(0) /\ calls[c].source = D(0) /\ calls[c].ret = Fifty
    /\ \E c \in Calls : calls[c].n > 1 /\ calls[c].hits > 0 /\ calls[c].hits < calls[c].n

====
